---- MODULE Spec2Model ----
(***************************************************************************)
(* Model of the event bridge of no.aptoma.plugin-api:                      *)
(*   - Listeners (the listener registry): add, remove, removeByCallback,   *)
(*     removeAll, notify, with callbacks that may call back into the       *)
(*     registry while a notify pass is running;                            *)
(*   - AH5Communicator.registerMenuActionGroup and its reply handler;      *)
(*   - AppAPI.request as AH5Communicator uses it: pending requests and the *)
(*     delivery of responses by identifier.                                *)
(* JavaScript array indices are 0-based; TLA+ sequences are 1-based, so    *)
(* slot i of an array arr is arr[i + 1].                                   *)
(***************************************************************************)
EXTENDS Integers, Sequences, FiniteSets, TLC

(***************************************************************************)
(* listeners    this._listeners: event type -> array of slots              *)
(* pc           "idle", or "callback" while a function invoked by notify   *)
(*              runs (a callback does not call notify itself here)         *)
(* each         the running or last notify pass: event type, data, the     *)
(*              length jQuery.each read, the turn i, and the array it      *)
(*              iterates once removeAll has replaced it in the registry;   *)
(*              start: the listeners (by the number of their add call)     *)
(*              that were in function slots when the pass began; ahead:    *)
(*              the listeners a callback of the pass removed before the    *)
(*              pass had invoked them                                      *)
(* returnValue  notify's local variable                                    *)
(* log          the listeners invoked by the running or last pass          *)
(* last         the call made last and its outcome                         *)
(* nAdds        the number of add calls so far                             *)
(* handles      what each add call returned, and what happened to it since *)
(* pending      the requests sent and not yet answered                     *)
(* nRequests    the number of requests sent so far                         *)
(* completed    the calls of completion callbacks of group registrations   *)
(* called       the calls of callbacks that callers handed to a request    *)
(* answered     the identifiers of the requests a response has arrived for *)
(***************************************************************************)
VARIABLES listeners, pc, each, returnValue, log, last, nAdds, handles,
          pending, nRequests, completed, called, answered

registry == <<listeners, pc, each, returnValue, log, last, nAdds, handles>>
bridge == <<pending, nRequests, completed, called, answered>>
vars == <<registry, bridge>>

(***************************************************************************)
(* Bounds                                                                  *)
(***************************************************************************)
MaxAdds == 3
MaxActions == 2
MaxRequests == 2
MaxGroups == 1

EventTypes == {"x", "y"}
Callbacks == {"f", "g"}

(***************************************************************************)
(* JavaScript values.  A value stored in a slot carries the number of the  *)
(* add call that stored it (id); the id is bookkeeping of the model and is *)
(* never read by the modelled code.                                        *)
(***************************************************************************)
Value(kind, cb) == [kind |-> kind, cb |-> cb, id |-> 0]
Undefined == Value("undefined", "-")
False == Value("false", "-")
Function(cb) == Value("function", cb)
NonFunction == Value("string", "-")

\* what callers pass to add as the callback argument
Addable == {Function(c) : c \in Callbacks} \cup {NonFunction}

\* e === callback on two values: same kind of value and same function object
StrictEquals(e, callback) == e.kind = callback.kind /\ e.cb = callback.cb

\* arr[index] of a JavaScript array: undefined outside 0 .. length - 1
Get(arr, index) == IF index \in 0 .. Len(arr) - 1 THEN arr[index + 1] ELSE Undefined

\* this._listeners[event] === undefined
IsUndefinedEvent(event) == event \notin DOMAIN listeners

\* this._listeners[event], for a registered event
Arr(event) == listeners[event]

\* this._listeners[event] = arr
SetArr(event, arr) ==
    [e \in DOMAIN listeners \cup {event} |-> IF e = event THEN arr ELSE listeners[e]]

(***************************************************************************)
(* Payloads handed to notify: isObj is false of an absent (falsy) data;     *)
(* params is data.params: undefined, true, or a truthy value other than    *)
(* true; list says whether data.data holds an argument list, and data is   *)
(* that list, which is empty when there is none                            *)
(***************************************************************************)
Payload(id) ==
    [isObj |-> TRUE, params |-> "undefined", list |-> FALSE, data |-> <<>>, id |-> id]
NoData ==
    [isObj |-> FALSE, params |-> "undefined", list |-> FALSE, data |-> <<>>, id |-> "undefined"]
Positional ==
    [isObj |-> TRUE, params |-> "true", list |-> TRUE,
     data |-> <<Payload("id1"), Payload("id2")>>, id |-> "undefined"]
\* { params: true } without a data property
MarkerOnly ==
    [isObj |-> TRUE, params |-> "true", list |-> FALSE, data |-> <<>>, id |-> "undefined"]
\* { params: 1, data: [...] }
TruthyParams ==
    [isObj |-> TRUE, params |-> "truthy", list |-> TRUE,
     data |-> <<Payload("id1"), Payload("id2")>>, id |-> "undefined"]

\* a mode test that takes any truthy data.params for the marker
ArgsOfTruthy(data) ==
    IF data.isObj /\ data.params \in {"true", "truthy"} THEN data.data ELSE <<data>>

\* the argument list a listener is called with (notify, lines 156-162);
\* e.apply(void 0, undefined) calls e without arguments
ArgsOf(data) == IF data.isObj /\ data.params = "true" THEN data.data ELSE <<data>>

\* values a callback can return
RetVals == {"false", "undefined", "true", "zero"}

NoLast == [op |-> "none", event |-> "-", index |-> -1, out |-> "-", hit |-> 0]
NoEach == [event |-> "-", data |-> NoData, length |-> 0, i |-> 0, live |-> TRUE,
           frozen |-> <<>>, mutated |-> FALSE, adds |-> 0, start |-> {}, ahead |-> {}]

\* a registry operation is called from the top level or from a running callback
TopLevel == pc = "idle"
InCallback == pc = "callback"

\* bookkeeping of a registry call: inside a running callback it marks the pass as
\* mutated; at the top level it starts a new record of invocations
Touch(changed) ==
    IF pc = "callback" THEN [each EXCEPT !.mutated = @ \/ changed] ELSE NoEach

\* bookkeeping of a remove that set the slot of listener id to false: inside a
\* running callback, a listener the pass has not invoked so far is noted
TouchRemoved(id) ==
    IF pc = "callback"
    THEN [each EXCEPT !.mutated = TRUE,
                      !.ahead = IF id > 0 /\ \A j \in 1 .. Len(log) : log[j].id # id
                                THEN @ \cup {id} ELSE @]
    ELSE NoEach

\* a removeAll that empties the array in place, under the running pass
DetachEmptied(event, all) ==
    IF pc = "callback"
    THEN IF each.live /\ (all \/ event = each.event)
         THEN [each EXCEPT !.mutated = TRUE, !.live = FALSE, !.frozen = << >>]
         ELSE [each EXCEPT !.mutated = TRUE]
    ELSE NoEach

\* the array being iterated was replaced in the registry: the pass keeps the old one
Detach(event, all) ==
    IF pc = "callback"
    THEN IF each.live /\ (all \/ event = each.event)
         THEN [each EXCEPT !.mutated = TRUE, !.live = FALSE, !.frozen = listeners[each.event]]
         ELSE [each EXCEPT !.mutated = TRUE]
    ELSE NoEach

Keep == IF pc = "callback" THEN log ELSE << >>

\* bookkeeping of the calls made so far: handles[k] is the event type and the index
\* the k-th add call returned, whether remove was since called with that index,
\* and whether removeAll has since cleared that event type
MarkRemoved(event, index) ==
    [k \in DOMAIN handles |->
        IF handles[k].event = event /\ handles[k].index = index /\ ~handles[k].cleared
        THEN [handles[k] EXCEPT !.removed = TRUE] ELSE handles[k]]

MarkCleared(events) ==
    [k \in DOMAIN handles |->
        IF handles[k].event \in events
        THEN [handles[k] EXCEPT !.removed = FALSE, !.cleared = TRUE] ELSE handles[k]]

Init ==
    /\ listeners = << >>
    /\ pc = "idle"
    /\ each = NoEach
    /\ returnValue = TRUE
    /\ log = << >>
    /\ last = NoLast
    /\ nAdds = 0
    /\ handles = << >>
    /\ pending = {}
    /\ nRequests = 0
    /\ completed = << >>
    /\ called = << >>
    /\ answered = {}

(***************************************************************************)
(* Listeners.prototype.add                                                 *)
(***************************************************************************)
\* var index = this._listeners[event].length
AddIndex(arr) == Len(arr)

\* add(event, callback) on st = [listeners, handles, nAdds]: the callback is stored
\* at index this._listeners[event].length, which is returned
AddCall(st, event, callback) ==
    LET reg == st.listeners
        arr == IF event \in DOMAIN reg THEN reg[event] ELSE << >>
        index == AddIndex(arr)
        stored == [callback EXCEPT !.id = st.nAdds + 1]
        len == IF index + 1 > Len(arr) THEN index + 1 ELSE Len(arr)
    IN  [listeners |-> [e \in DOMAIN reg \cup {event} |->
                           IF e = event
                           THEN [k \in 1 .. len |-> IF k = index + 1 THEN stored ELSE arr[k]]
                           ELSE reg[e]],
         handles |-> Append(st.handles, [event |-> event, index |-> index,
                                         removed |-> FALSE, cleared |-> FALSE]),
         nAdds |-> st.nAdds + 1]

Registry == [listeners |-> listeners, handles |-> handles, nAdds |-> nAdds]

Add(event, callback) ==
    LET st == AddCall(Registry, event, callback)
    IN  /\ listeners' = st.listeners
        /\ handles' = st.handles
        /\ nAdds' = st.nAdds
        /\ last' = [op |-> "add", event |-> event, index |-> st.handles[Len(st.handles)].index,
                    out |-> "index", hit |-> 0]
        /\ each' = Touch(TRUE)
        /\ log' = Keep
        /\ UNCHANGED <<pc, returnValue, bridge>>

(***************************************************************************)
(* Listeners.prototype.remove                                              *)
(***************************************************************************)
\* a remove that forgets the assignment
RemoveAtNothing(arr, index) == arr

\* a remove that deletes the slot and closes the gap (splice)
RemoveAtSplice(arr, index) ==
    [k \in 1 .. Len(arr) - 1 |-> IF k < index + 1 THEN arr[k] ELSE arr[k + 1]]

\* this._listeners[event][index] = false
RemoveAt(arr, index) == [arr EXCEPT ![index + 1] = False]

Remove(event, index) ==
    /\ IF IsUndefinedEvent(event) \/ Get(Arr(event), index) = Undefined
       THEN /\ last' = [op |-> "remove", event |-> event, index |-> index,
                        out |-> "undefined", hit |-> 0]
            /\ each' = Touch(FALSE)
            /\ UNCHANGED listeners
       ELSE /\ listeners' = SetArr(event, RemoveAt(Arr(event), index))
            /\ last' = [op |-> "remove", event |-> event, index |-> index,
                        out |-> "undefined", hit |-> Get(Arr(event), index).id]
            /\ each' = TouchRemoved(Get(Arr(event), index).id)
    /\ log' = Keep
    /\ handles' = MarkRemoved(event, index)
    /\ UNCHANGED <<pc, returnValue, nAdds, bridge>>

(***************************************************************************)
(* Listeners.prototype.removeByCallback                                    *)
(***************************************************************************)
\* the first index i at which $.each finds e === callback, or -1
FirstMatch(arr, callback) ==
    LET hits == {i \in 0 .. Len(arr) - 1 : StrictEquals(Get(arr, i), callback)}
    IN  IF hits = {} THEN -1 ELSE CHOOSE i \in hits : \A j \in hits : i <= j

\* $.each calls its function with this bound to the element, so this.remove is
\* looked up on the stored callback, which has no such method: the call raises
\* a TypeError at the first match and nothing is removed.  Without a match the
\* function falls through to return false.  $.each(undefined, ...) raises a
\* TypeError in jQuery before 1.12/2.2 and iterates nothing in later versions.
RemoveByCallback(event, callback) ==
    /\ \E out \in {"false", "TypeError"} :
          /\ IF IsUndefinedEvent(event)
             THEN TRUE
             ELSE out = (IF FirstMatch(Arr(event), callback) >= 0 THEN "TypeError" ELSE "false")
          /\ last' = [op |-> "removeByCallback", event |-> event,
                      index |-> IF IsUndefinedEvent(event) THEN -1
                                ELSE FirstMatch(Arr(event), callback),
                      out |-> out, hit |-> 0]
    /\ each' = Touch(FALSE)
    /\ log' = Keep
    /\ UNCHANGED <<listeners, pc, returnValue, nAdds, handles, bridge>>

(***************************************************************************)
(* Listeners.prototype.removeAll                                           *)
(***************************************************************************)
\* removeAll() called without an argument: event is undefined
NoArgument == "-"

\* !event: true of undefined and of the empty string, false of any other string
IsFalsy(event) == event \in {NoArgument, ""}

\* a removeAll that resets the whole registry whatever its argument
ClearedEverything(reg, event) == << >>

\* if (!event) this._listeners = []; else this._listeners[event] = [];
Cleared(reg, event) ==
    IF IsFalsy(event) THEN << >>
    ELSE [e \in DOMAIN reg \cup {event} |-> IF e = event THEN << >> ELSE reg[e]]

\* removeAll(event)
RemoveAll(event) ==
    /\ each' = Detach(event, IsFalsy(event))
    /\ listeners' = Cleared(listeners, event)
    /\ last' = [op |-> "removeAll", event |-> event, index |-> -1, out |-> "undefined", hit |-> 0]
    /\ log' = Keep
    /\ handles' = MarkCleared(IF IsFalsy(event) THEN {handles[k].event : k \in DOMAIN handles}
                              ELSE {event})
    /\ UNCHANGED <<pc, returnValue, nAdds, bridge>>

\* removeAll() without an argument
RemoveAllEvents == RemoveAll(NoArgument)

(***************************************************************************)
(* Listeners.prototype.notify.  jQuery.each(array, fn) reads array.length  *)
(* once, then calls fn(i, array[i]) for i = 0 .. length - 1, reading each  *)
(* element when its turn comes, and stops early only when fn returns       *)
(* false, which the function notify passes never does.                     *)
(***************************************************************************)
\* e && typeof e === "function"
IsCallable(e) == e.kind \in {"function", "adapter", "noop"}

\* a veto test with == instead of ===: 0 == false
AccumulateLoose(rv, r) == IF r \in {"false", "zero"} THEN FALSE ELSE rv

\* an aggregate that keeps only the latest callback's verdict
AccumulateLatest(rv, r) == r # "false"

\* if (r === false) returnValue = false
Accumulate(rv, r) == IF r = "false" THEN FALSE ELSE rv

\* the length jQuery.each iterates up to
EachLength(arr) == Len(arr)

\* a loop that reads array.length again at every turn
EachDoneLive(i, length, arr) == i >= Len(arr)

\* the loop of jQuery.each ends at the length it read before the first turn
EachDone(i, length, arr) == i >= length

\* func(data.id): what the listener made by createMenuAction hands to func
AdapterArg(data) == data.id

\* the array object the running pass iterates
EachArr == IF each.live THEN listeners[each.event] ELSE each.frozen

BoolString(b) == IF b THEN "true" ELSE "false"

Returned(event, rv) ==
    [op |-> "notify", event |-> event, index |-> -1, out |-> BoolString(rv), hit |-> 0]
Raised(event) ==
    [op |-> "notify", event |-> event, index |-> -1, out |-> "exception", hit |-> 0]

Invocation(i, e, args) ==
    [slot |-> i, kind |-> e.kind, cb |-> e.cb, id |-> e.id, args |-> args,
     inner |-> IF e.kind = "adapter" THEN <<AdapterArg(args[1])>> ELSE << >>,
     ret |-> IF e.kind = "noop" THEN "undefined" ELSE "running"]

Running(event) ==
    [op |-> "notify", event |-> event, index |-> -1, out |-> "running", hit |-> 0]

\* the loop of jQuery.each from turn i up to the next call of a user function:
\* slots that hold no function are passed over, a listener made for an action
\* without callback does nothing, and the loop ends after turn length - 1
RECURSIVE Scan(_, _, _, _, _, _)
Scan(arr, i, length, rv, lg, args) ==
    IF EachDone(i, length, arr)
    THEN [status |-> "done", i |-> i, rv |-> rv, log |-> lg]
    ELSE LET e == Get(arr, i)
         IN  IF ~IsCallable(e)
             THEN Scan(arr, i + 1, length, rv, lg, args)
             ELSE IF e.kind = "noop"
             THEN Scan(arr, i + 1, length, Accumulate(rv, "undefined"),
                       Append(lg, Invocation(i, e, args)), args)
             ELSE IF e.kind = "adapter" /\ ~args[1].isObj
             THEN \* data.id on undefined raises a TypeError inside the listener
                  [status |-> "raise", i |-> i, rv |-> rv, log |-> lg]
             ELSE [status |-> "call", i |-> i, rv |-> rv,
                   log |-> Append(lg, Invocation(i, e, args))]

\* the pass goes on from the state st the loop has reached: a user function is
\* running, or notify has returned returnValue, or an exception has left notify
Resume(pass, st) ==
    /\ pc' = IF st.status = "call" THEN "callback" ELSE "idle"
    /\ each' = [pass EXCEPT !.i = st.i]
    /\ log' = st.log
    /\ returnValue' = IF st.status = "call" THEN st.rv ELSE TRUE
    /\ last' = CASE st.status = "call" -> Running(pass.event)
                 [] st.status = "done" -> Returned(pass.event, st.rv)
                 [] st.status = "raise" -> Raised(pass.event)

NotifyStart(event, data) ==
    /\ pc = "idle"
    /\ IF IsUndefinedEvent(event)
       THEN /\ last' = Returned(event, TRUE)
            /\ each' = [NoEach EXCEPT !.event = event, !.data = data, !.adds = nAdds]
            /\ log' = << >>
            /\ returnValue' = TRUE
            /\ UNCHANGED pc
       ELSE Resume([NoEach EXCEPT !.event = event, !.data = data, !.adds = nAdds,
                                  !.length = EachLength(Arr(event)),
                                  !.start = {Arr(event)[i + 1].id : i \in
                                                {k \in 0 .. Len(Arr(event)) - 1 :
                                                    IsCallable(Get(Arr(event), k))}}],
                   Scan(Arr(event), 0, EachLength(Arr(event)), TRUE, << >>, ArgsOf(data)))
    /\ UNCHANGED <<listeners, nAdds, handles, bridge>>

\* a listener of a menu action that returns what the action's callback returned
ListenerResultForwarded(kind, r) == r

\* what the listener returns to notify when the user function it runs returns
\* r: a listener made by createMenuAction calls func(data.id) and returns nothing
ListenerResult(kind, r) == IF kind = "function" THEN r ELSE "undefined"

\* the running user function returns r, and the loop goes on with the next turn
CallbackReturn(r) ==
    /\ pc = "callback"
    /\ LET call == log[Len(log)]
           out == ListenerResult(call.kind, r)
       IN  Resume(each, Scan(EachArr, each.i + 1, each.length, Accumulate(returnValue, out),
                             [log EXCEPT ![Len(log)].ret = r], ArgsOf(each.data)))
    /\ UNCHANGED <<listeners, nAdds, handles, bridge>>

\* a notify that catches what a listener throws and goes on with the next turn
CallbackThrowSwallowed ==
    /\ pc = "callback"
    /\ Resume(each, Scan(EachArr, each.i + 1, each.length, returnValue,
                         [log EXCEPT ![Len(log)].ret = "throw"], ArgsOf(each.data)))
    /\ UNCHANGED <<listeners, nAdds, handles, bridge>>

\* the running user function throws: the exception leaves jQuery.each and notify
CallbackThrow ==
    /\ pc = "callback"
    /\ log' = [log EXCEPT ![Len(log)].ret = "throw"]
    /\ pc' = "idle"
    /\ last' = Raised(each.event)
    /\ returnValue' = TRUE
    /\ UNCHANGED <<listeners, each, nAdds, handles, bridge>>

(***************************************************************************)
(* AppAPI.request and the delivery of the host's reply: one pending        *)
(* request per call, resolved by the response that carries its identifier. *)
(***************************************************************************)
\* request(action, payload, callback); group is what the callback closes over
Request(action, payload, callback, group) ==
    /\ nRequests < MaxRequests
    /\ pending' = pending \cup {[cid |-> nRequests + 1, action |-> action, payload |-> payload,
                                  callback |-> callback, group |-> group]}
    /\ nRequests' = nRequests + 1

(***************************************************************************)
(* AH5Communicator.registerMenuActionGroup                                 *)
(***************************************************************************)
\* what a group's action carries as its callback
ActionCallbacks == {Function(c) : c \in Callbacks} \cup {Undefined}

RECURSIVE SeqsUpTo(_, _)
SeqsUpTo(S, n) ==
    IF n = 0 THEN {<< >>}
    ELSE LET shorter == SeqsUpTo(S, n - 1)
         IN  shorter \cup {Append(q, x) : q \in {t \in shorter : Len(t) = n - 1}, x \in S}

\* group.actions[i].callback, i = 0 .. group.actions.length - 1
Groups == SeqsUpTo(ActionCallbacks, MaxActions)
\* the host's reply: a list of event type names
TypeNames == SeqsUpTo(EventTypes, MaxActions + 1)

\* a registration that hands over a copy of the group without its callbacks
HandedStripped(group) == [i \in DOMAIN group |-> Undefined]

\* AppAPI.request('register-menu-action-group', group, ...): the second argument
Handed(group) == group

RegisterMenuActionGroup(group) ==
    /\ TopLevel
    /\ Request("register-menu-action-group", Handed(group), Function("reply"), group)
    /\ last' = [op |-> "request", event |-> "-", index |-> Len(group), out |-> "undefined",
                hit |-> nRequests + 1]
    /\ each' = NoEach
    /\ log' = << >>
    /\ UNCHANGED <<listeners, pc, returnValue, nAdds, handles, completed, called, answered>>

\* a check that only rejects a reply with too many names
LengthMismatchMore(typeNames, actions) == Len(typeNames) > Len(actions)

\* typeNames.length !== group.actions.length
LengthMismatch(typeNames, actions) == Len(typeNames) # Len(actions)

\* createMenuAction(func): the listener that forwards data.id to func
createMenuAction(func) ==
    IF func.kind = "function" THEN Value("adapter", func.cb) ELSE Value("noop", "-")

\* a loop whose listeners all close over the loop's last callback
RECURSIVE AddMenuActionsLast(_, _, _, _)
AddMenuActionsLast(st, typeNames, actions, i) ==
    IF i >= Len(typeNames) THEN st
    ELSE AddMenuActionsLast(AddCall(st, typeNames[i + 1], createMenuAction(actions[Len(actions)])),
                            typeNames, actions, i + 1)

\* a loop that stops one name short
RECURSIVE AddMenuActionsButLast(_, _, _, _)
AddMenuActionsButLast(st, typeNames, actions, i) ==
    IF i >= Len(typeNames) - 1 THEN st
    ELSE AddMenuActionsButLast(AddCall(st, typeNames[i + 1], createMenuAction(actions[i + 1])),
                               typeNames, actions, i + 1)

\* for (var i = 0; i < typeNames.length; i++) add(typeNames[i], createMenuAction(...))
RECURSIVE AddMenuActions(_, _, _, _)
AddMenuActions(st, typeNames, actions, i) ==
    IF i >= Len(typeNames) THEN st
    ELSE AddMenuActions(AddCall(st, typeNames[i + 1], createMenuAction(actions[i + 1])),
                        typeNames, actions, i + 1)

\* the function registerMenuActionGroup hands to AppAPI.request, called with the reply
ReplyHandler(req, typeNames) ==
    IF LengthMismatch(typeNames, req.group)
    THEN /\ last' = [op |-> "reply", event |-> "-", index |-> Len(typeNames), out |-> "return",
                     hit |-> req.cid]
         /\ UNCHANGED <<listeners, handles, nAdds, completed>>
    ELSE LET st == AddMenuActions(Registry, typeNames, req.group, 0)
         IN  /\ nAdds + Len(typeNames) <= MaxAdds
             /\ listeners' = st.listeners
             /\ handles' = st.handles
             /\ nAdds' = st.nAdds
             /\ completed' = Append(completed, [cid |-> req.cid, typeNames |-> typeNames,
                                                actions |-> req.group, first |-> nAdds])
             /\ last' = [op |-> "reply", event |-> "-", index |-> Len(typeNames),
                         out |-> "callback", hit |-> req.cid]

\* the response to a pending request arrives: the request is resolved with it
Response(req, typeNames) ==
    /\ TopLevel
    /\ req \in pending
    /\ pending' = pending \ {req}
    /\ answered' = answered \cup {req.cid}
    /\ ReplyHandler(req, typeNames)
    /\ each' = NoEach
    /\ log' = << >>
    /\ UNCHANGED <<pc, returnValue, nRequests, called>>

(***************************************************************************)
(* A request whose callback the caller supplies, and the delivery of a     *)
(* response, which carries the identifier of the request it answers        *)
(***************************************************************************)
\* the values a response carries
Results == {"r1", "r2"}

\* AH5Communicator.getActiveEditor(callback)
GetActiveEditor(callback) ==
    /\ TopLevel
    /\ Request("get-active-editor", << >>, callback, << >>)
    /\ last' = [op |-> "request", event |-> "-", index |-> 0, out |-> "undefined",
                hit |-> nRequests + 1]
    /\ each' = NoEach
    /\ log' = << >>
    /\ UNCHANGED <<listeners, pc, returnValue, nAdds, handles, completed, called, answered>>

\* routing by arrival order: the oldest pending request takes the response
MatchOldest(pend, cid) == {req \in pend : \A other \in pend : req.cid <= other.cid}

\* the pending requests that a response with identifier cid answers
Match(pend, cid) == {req \in pend : req.cid = cid}

\* a resolution that leaves the pending request in place
ResolvedKeep(pend, req) == pend

\* the pending requests once req is resolved
Resolved(pend, req) == pend \ {req}

\* a response with identifier cid and value result arrives: the pending request
\* with that identifier is removed and its callback called with the value; a
\* response that answers no pending request is ignored
Deliver(cid, result) ==
    /\ TopLevel
    /\ LET hit == Match(pending, cid)
       IN  IF hit = {}
           THEN /\ last' = [op |-> "response", event |-> "-", index |-> cid, out |-> result,
                            hit |-> 0]
                /\ UNCHANGED <<pending, called>>
           ELSE LET req == CHOOSE r \in hit : TRUE
                IN  /\ pending' = Resolved(pending, req)
                    /\ called' = Append(called, [cid |-> req.cid, callback |-> req.callback,
                                                 result |-> result])
                    /\ last' = [op |-> "response", event |-> "-", index |-> cid,
                                out |-> result, hit |-> req.cid]
    /\ answered' = answered \cup ({cid} \cap (1 .. nRequests))
    /\ each' = NoEach
    /\ log' = << >>
    /\ UNCHANGED <<listeners, pc, returnValue, nAdds, handles, nRequests, completed>>

(***************************************************************************)
(* Specification of the registry called from the top level                 *)
(***************************************************************************)
\* the indices of the slots allocated for event, and the first one beyond them
Indices(event) == 0 .. (IF IsUndefinedEvent(event) THEN 0 ELSE Len(Arr(event)))

TopData == {Payload("id1"), Positional}

Next ==
    \/ TopLevel /\ \E event \in EventTypes, callback \in Addable :
          nAdds < MaxAdds /\ Add(event, callback)
    \/ TopLevel /\ \E event \in EventTypes : \E index \in Indices(event) : Remove(event, index)
    \/ TopLevel /\ \E event \in EventTypes, callback \in Addable : RemoveByCallback(event, callback)
    \/ TopLevel /\ \E event \in EventTypes : RemoveAll(event)
    \/ TopLevel /\ RemoveAllEvents
    \/ \E event \in EventTypes, data \in TopData : NotifyStart(event, data)
    \/ \E r \in RetVals : CallbackReturn(r)
    \/ CallbackThrow

Spec == Init /\ [][Next]_vars

(***************************************************************************)
(* Specification of callbacks that call back into the registry while the   *)
(* notify pass that invoked them is running                                *)
(***************************************************************************)
ReentrantEvents == {"x"}
ReentrantData == {Payload("id1")}

NextReentrant ==
    \/ (TopLevel \/ InCallback) /\ \E event \in ReentrantEvents, c \in Callbacks :
          nAdds < MaxAdds /\ Add(event, Function(c))
    \/ (TopLevel \/ InCallback) /\ \E event \in ReentrantEvents :
          \E index \in Indices(event) : Remove(event, index)
    \/ (TopLevel \/ InCallback) /\ \E event \in ReentrantEvents : RemoveAll(event)
    \/ (TopLevel \/ InCallback) /\ RemoveAllEvents
    \/ \E event \in ReentrantEvents, data \in ReentrantData : NotifyStart(event, data)
    \/ \E r \in RetVals : CallbackReturn(r)
    \/ CallbackThrow

SpecReentrant == Init /\ [][NextReentrant]_vars

(***************************************************************************)
(* Specification of group registration: requests, replies of any length,   *)
(* and notifications of the event types the host named                     *)
(***************************************************************************)
GroupData == {NoData, Payload("id1")}
GroupRetVals == {"false", "undefined"}
\* replies with one name less than, as many names as, and one name more than
\* the group has actions
Replies(actions) == {t \in TypeNames : Len(t) \in Len(actions) - 1 .. Len(actions) + 1}

NextGroup ==
    \/ \E group \in Groups : nRequests < MaxGroups /\ RegisterMenuActionGroup(group)
    \/ \E req \in pending : \E typeNames \in Replies(req.group) : Response(req, typeNames)
    \/ \E event \in EventTypes, data \in GroupData : NotifyStart(event, data)
    \/ \E r \in GroupRetVals : CallbackReturn(r)
    \/ CallbackThrow

SpecGroup == Init /\ [][NextGroup]_vars

(***************************************************************************)
(* Specification of removeAll over event types that include the empty      *)
(* string, which add and notify accept like any other string               *)
(***************************************************************************)
ClearEvents == {"", "x"}

NextClear ==
    \/ TopLevel /\ \E event \in ClearEvents, c \in Callbacks :
          nAdds < MaxAdds /\ Add(event, Function(c))
    \/ TopLevel /\ \E event \in ClearEvents : \E index \in Indices(event) : Remove(event, index)
    \/ TopLevel /\ \E event \in ClearEvents : RemoveAll(event)
    \/ TopLevel /\ RemoveAllEvents

SpecClear == Init /\ [][NextClear]_vars

(***************************************************************************)
(* Specification of concurrent requests and responses delivered in any     *)
(* order, repeated, or carrying an identifier no request has               *)
(***************************************************************************)
NextRequest ==
    \/ \E c \in Callbacks : GetActiveEditor(Function(c))
    \/ \E cid \in 1 .. MaxRequests, result \in Results : Deliver(cid, result)

SpecRequest == Init /\ [][NextRequest]_vars

(***************************************************************************)
(* Specification of notify over the shapes of data                         *)
(***************************************************************************)
ModeEvents == {"x"}
ModeData == {NoData, Payload("id1"), Positional, MarkerOnly, TruthyParams}
ModeRetVals == {"false", "undefined"}

NextModes ==
    \/ TopLevel /\ \E event \in ModeEvents, c \in Callbacks :
          nAdds < MaxAdds /\ Add(event, Function(c))
    \/ \E event \in ModeEvents, data \in ModeData : NotifyStart(event, data)
    \/ \E r \in ModeRetVals : CallbackReturn(r)

SpecModes == Init /\ [][NextModes]_vars

(***************************************************************************)
(* Properties                                                              *)
(***************************************************************************)
\* notify(event, data) has returned its aggregate result and nothing was called since
NotifyReturned == pc = "idle" /\ last.op = "notify" /\ last.out \in {"true", "false"}

\* what the listener of an invocation returned to notify
ListenerReturn(call) == IF call.kind = "function" THEN call.ret ELSE "undefined"

\* the add calls on event whose slot was neither removed nor cleared since
ActiveAdds(event) ==
    {k \in DOMAIN handles :
        handles[k].event = event /\ ~handles[k].removed /\ ~handles[k].cleared}

\* the indices of the slots of event that hold a function now
FunctionSlots(event) ==
    IF IsUndefinedEvent(event) THEN {}
    ELSE {i \in 0 .. Len(Arr(event)) - 1 :
             Arr(event)[i + 1].kind \in {"function", "adapter", "noop"}}

\* C1: after any add and remove calls, a notify of E that returns has invoked
\* exactly the functions in the slots of E that were added and not removed, each
\* once, in the order they were added, with data, and no function whose slot was
\* removed or that was added for another event type.
C1_NotifyInvokesActive ==
    NotifyReturned =>
        /\ Len(log) = Cardinality(FunctionSlots(last.event))
        /\ \A j \in 1 .. Len(log) :
              /\ log[j].slot \in FunctionSlots(last.event)
              /\ log[j].id \in ActiveAdds(last.event)
              /\ Arr(last.event)[log[j].slot + 1].id = log[j].id
              /\ each.data.params # "true" => log[j].args = <<each.data>>
        /\ \A j, k \in 1 .. Len(log) : j < k => log[j].id < log[k].id /\ log[j].slot < log[k].slot

\* add f, add g, remove f's slot, notify: only g was invoked, once
C1_Witness ==
    /\ NotifyReturned
    /\ last.event = "x"
    /\ Len(handles) = 2
    /\ handles[1] = [event |-> "x", index |-> 0, removed |-> TRUE, cleared |-> FALSE]
    /\ handles[2] = [event |-> "x", index |-> 1, removed |-> FALSE, cleared |-> FALSE]
    /\ Len(log) = 1
    /\ log[1].cb = "g" /\ log[1].slot = 1
    /\ log[1].args = <<Payload("id1")>>

\* C2: notify returns false exactly when a function it invoked in that pass
\* returned the value false; undefined, true and 0 do not veto, and an event type
\* without listeners, or never registered, gives true.
C2_VetoIffFalse ==
    NotifyReturned =>
        (last.out = "false" <=> \E j \in 1 .. Len(log) : ListenerReturn(log[j]) = "false")

\* a pass in which one listener returned 0 and another undefined returned true
C2_Witness ==
    /\ NotifyReturned
    /\ last.out = "true"
    /\ \E j, k \in 1 .. Len(log) : log[j].ret = "zero" /\ log[k].ret = "undefined"

\* C3: once a listener has returned false, the later functions of the event type
\* are still invoked in the same pass, and the result stays false whatever they
\* return.
C3_CumulativeNoShortCircuit ==
    NotifyReturned =>
        \A j \in 1 .. Len(log) :
            ListenerReturn(log[j]) = "false" =>
                /\ last.out = "false"
                /\ \A i \in FunctionSlots(last.event) :
                      i > log[j].slot => \E k \in j + 1 .. Len(log) : log[k].slot = i

\* the first listener vetoed, the second one ran after it and returned true
C3_Witness ==
    /\ NotifyReturned
    /\ Len(log) >= 2
    /\ log[1].ret = "false"
    /\ log[2].ret = "true"
    /\ last.out = "false"

\* the event types on which removeAll has cleared a slot
ClearedEvents == {handles[k].event : k \in {n \in DOMAIN handles : handles[n].cleared}}

\* the add calls made on event, in the order they were made
AddsOn(event) == SelectSeq([k \in DOMAIN handles |-> k], LAMBDA k : handles[k].event = event)

\* C4: while only add and remove are used on E, the k-th add on E (from 0)
\* returns k however many slots were removed, so no index is handed out twice,
\* and every callback not removed is still in the slot whose index its add returned.
C4_IndexStability ==
    \A event \in EventTypes \ ClearedEvents :
        LET adds == AddsOn(event)
        IN  \A n \in 1 .. Len(adds) :
               /\ handles[adds[n]].index = n - 1
               /\ ~handles[adds[n]].removed =>
                     /\ ~IsUndefinedEvent(event)
                     /\ Get(Arr(event), n - 1).id = adds[n]
               /\ handles[adds[n]].removed => Get(Arr(event), n - 1) = False

\* an add made after the removal of an earlier slot got the next index
C4_Witness ==
    /\ Len(handles) = 3
    /\ \A k \in 1 .. 3 : handles[k].event = "x" /\ ~handles[k].cleared
    /\ handles[1].removed /\ ~handles[2].removed /\ ~handles[3].removed
    /\ last.op = "add" /\ last.index = 2

\* C5: an index returned by add never comes to denote another add's listener:
\* whatever add, remove, removeByCallback and removeAll calls follow, remove with
\* the event type and index of the k-th add deactivates the k-th add's slot or nothing.
C5_StaleIndexNeverRebound ==
    \A k \in DOMAIN handles :
        (last.op = "remove" /\ last.event = handles[k].event /\ last.index = handles[k].index)
            => last.hit \in {0, k}

\* C6: removeByCallback on a registered event type turns the first slot holding
\* the callback into a tombstone, changes no other slot, and returns true;
\* without such a slot it returns false and changes nothing.
C6_RemoveByCallback ==
    [][(pc = "idle" /\ last'.op = "removeByCallback" /\ last'.event \in DOMAIN listeners) =>
          IF last'.index >= 0
          THEN /\ last'.out = "true"
               /\ listeners' = [listeners EXCEPT ![last'.event][last'.index + 1] = False]
          ELSE /\ last'.out = "false"
               /\ listeners' = listeners]_vars

\* C7: remove with an event type that was never registered or an index that was
\* never allocated, and removeByCallback without a matching slot (also on an
\* event type never registered), raise nothing and leave the registry as it
\* was; removeByCallback then returns false.
C7_UnknownRemovalIsNoOp ==
    [][pc = "idle" =>
          /\ (/\ last'.op = "remove"
              /\ \/ last'.event \notin DOMAIN listeners
                 \/ last'.index \notin 0 .. Len(listeners[last'.event]) - 1)
                => (listeners' = listeners /\ last'.out = "undefined")
          /\ (last'.op = "removeByCallback" /\ last'.index = -1)
                => (listeners' = listeners /\ last'.out = "false")]_vars

\* the slots of the registry, as <<event type, index>>
Slots ==
    {<<e, i>> \in EventTypes \X (0 .. MaxAdds) :
        e \in DOMAIN listeners /\ i < Len(listeners[e])}

RECURSIVE SumLen(_, _)
SumLen(done, n) == IF n = 0 THEN 0 ELSE Len(done[n].typeNames) + SumLen(done, n - 1)

\* C8: a reply with as many names as the group has actions adds exactly that
\* many listeners, the i-th under the i-th name; that listener hands the id
\* field of the notification's payload, and nothing else, to the i-th action's
\* callback and to no other; the completion callback is then called once with
\* the list of names.
C8_GroupRegistered ==
    /\ Cardinality(Slots) = SumLen(completed, Len(completed))
    /\ \A m, n \in 1 .. Len(completed) : completed[m].cid = completed[n].cid => m = n
    /\ \A n \in 1 .. Len(completed) :
          LET c == completed[n]
          IN  \A i \in 1 .. Len(c.actions) :
                 \E slot \in Slots :
                    LET e == listeners[slot[1]][slot[2] + 1]
                    IN  /\ e.id = c.first + i
                        /\ slot[1] = c.typeNames[i]
                        /\ e.kind = (IF c.actions[i].kind = "function" THEN "adapter" ELSE "noop")
                        /\ e.cb = c.actions[i].cb
    /\ \A j \in 1 .. Len(log) :
          \E n \in 1 .. Len(completed) :
             LET c == completed[n]
                 i == log[j].id - c.first
             IN  /\ i \in 1 .. Len(c.actions)
                 /\ each.event = c.typeNames[i]
                 /\ log[j].kind = "adapter" =>
                       /\ log[j].cb = c.actions[i].cb
                       /\ log[j].inner = <<log[j].args[1].id>>
                 /\ log[j].kind = "noop" => c.actions[i].kind # "function"

\* a group of two actions f, g registered under the names x, y; a notification
\* of y with id1 reached g with "id1"
C8_Witness ==
    /\ Len(completed) = 1
    /\ completed[1].typeNames = <<"x", "y">>
    /\ completed[1].actions = <<Function("f"), Function("g")>>
    /\ NotifyReturned
    /\ last.event = "y"
    /\ Len(log) = 1
    /\ log[1].cb = "g" /\ log[1].inner = <<"id1">>

\* C9: a reply whose number of names differs from the group's number of
\* actions leaves the registry as it was and the completion callback uncalled,
\* for that reply and ever after.
C9_MismatchAborts ==
    /\ [](\A n \in 1 .. Len(completed) :
             Len(completed[n].typeNames) = Len(completed[n].actions))
    /\ [][\A req \in pending :
             (req \notin pending' /\ last'.op = "reply" /\ last'.hit = req.cid
                 /\ last'.index # Len(req.group))
               => (listeners' = listeners /\ nAdds' = nAdds /\ completed' = completed)]_vars

\* a reply of one name to a group of two actions was handled
C9_Witness ==
    /\ last.op = "reply"
    /\ last.index = 1
    /\ pending = {}
    /\ nRequests = 1
    /\ completed = << >>
    /\ listeners = << >>

\* C10: a listener added to E by a callback that notify(E, data) is running
\* is not invoked in that pass: every function the pass invokes was added
\* before the pass began.
C10_AddDuringNotifyNotInvoked ==
    \A j \in 1 .. Len(log) : log[j].id <= each.adds

\* a pass over E returned after one of its callbacks added a listener to E,
\* which is in the registry, beyond the slots the pass went over
C10_Witness ==
    /\ NotifyReturned
    /\ each.live
    /\ nAdds > each.adds
    /\ handles[nAdds].event = last.event
    /\ Len(log) >= 1
    /\ Len(Arr(last.event)) > each.length
    /\ Get(Arr(last.event), each.length).kind = "function"
\* the registry after a removeAll that empties event and nothing else
OnlyEmptied(event) ==
    /\ event \in DOMAIN listeners' => listeners'[event] = << >>
    /\ \A e \in DOMAIN listeners \ {event} :
          e \in DOMAIN listeners' /\ listeners'[e] = listeners[e]

\* C11 as stated: removeAll(E) empties the sequence of E and leaves every other
\* event type as it was, for every string E, the empty string included;
\* removeAll() leaves no event type with listeners.
C11_RemoveAllAnyString ==
    [][last'.op = "removeAll" =>
          IF last'.event = NoArgument THEN listeners' = << >>
          ELSE OnlyEmptied(last'.event)]_vars

\* C11: removeAll(E) with E a non-empty string empties the sequence of E and
\* leaves every other event type as it was; removeAll() and removeAll("")
\* leave no event type with listeners.
C11_RemoveAllFrame ==
    [][last'.op = "removeAll" =>
          IF last'.event \in {NoArgument, ""} THEN listeners' = << >>
          ELSE OnlyEmptied(last'.event)]_vars

\* removeAll("x") was called with listeners on "" and on "x": those of "" remain
C11_Witness ==
    /\ last.op = "removeAll"
    /\ last.event = "x"
    /\ \E k \in DOMAIN handles : handles[k].event = "x" /\ handles[k].cleared
    /\ "" \in DOMAIN listeners
    /\ Len(listeners[""]) = 2
    /\ listeners["x"] = << >>

\* C12: a response is routed by its identifier and never by arrival order: the
\* callback of the pending request with that identifier, and no other, is called
\* with the value of that response, whatever the order of delivery; sending a
\* further request calls nothing and leaves the pending requests as they were.
C12_RoutedByIdentifier ==
    [][/\ last'.op = "response" =>
             LET mine == {req \in pending : req.cid = last'.index}
             IN  /\ \A other \in pending \ mine : other \in pending'
                 /\ IF mine = {} THEN called' = called
                    ELSE \A req \in mine :
                            called' = Append(called, [cid |-> last'.index,
                                                      callback |-> req.callback,
                                                      result |-> last'.out])
       /\ last'.op = "request" => (called' = called /\ pending \subseteq pending')]_vars

\* two requests were outstanding together, and their responses came in reverse order
C12_Witness ==
    /\ nRequests = 2
    /\ pending = {}
    /\ called = <<[cid |-> 2, callback |-> Function("g"), result |-> "r1"],
                  [cid |-> 1, callback |-> Function("f"), result |-> "r2"]>>

\* C13: a request that no response has arrived for has exactly one pending
\* request and its callback was never called; a request that a response has
\* arrived for has no pending request and its callback was called exactly once,
\* however many responses carried its identifier.
C13_ExactlyOnce ==
    /\ \A req \in pending : req.cid \in 1 .. nRequests
    /\ \A j \in DOMAIN called : called[j].cid \in 1 .. nRequests
    /\ \A cid \in 1 .. nRequests :
          LET mine == {req \in pending : req.cid = cid}
              calls == {j \in DOMAIN called : called[j].cid = cid}
          IN  IF cid \in answered
              THEN mine = {} /\ Cardinality(calls) = 1
              ELSE Cardinality(mine) = 1 /\ calls = {}

\* a second response with the identifier of a resolved request, and another
\* value, was ignored
C13_Witness ==
    /\ last.op = "response"
    /\ last.hit = 0
    /\ last.index \in answered
    /\ \E j \in DOMAIN called : called[j].cid = last.index /\ called[j].result # last.out

\* the listeners the running or last pass has invoked, in the order of invocation
Invoked == [j \in 1 .. Len(log) |-> log[j].id]

\* C14: when callbacks of a pass have removed listeners of the event type being
\* notified before the pass reached them, the pass invokes none of those, and
\* it invokes every other listener that was in a function slot when the pass
\* began, once each, in slot order.
C14_RemoveAheadSkipsSlot ==
    (NotifyReturned /\ each.ahead \cap each.start # {}) =>
        /\ \A j \in 1 .. Len(log) : log[j].id \notin each.ahead
        /\ {Invoked[j] : j \in 1 .. Len(log)} = each.start \ each.ahead
        /\ \A j, k \in 1 .. Len(log) :
              j < k => (log[j].slot < log[k].slot /\ Invoked[j] < Invoked[k])

\* of three listeners, the first removed the second during the pass: the first
\* and the third were invoked
C14_Witness ==
    /\ NotifyReturned
    /\ each.start = {1, 2, 3}
    /\ each.ahead = {2}
    /\ Invoked = <<1, 3>>
    /\ Get(Arr("x"), 1) = False
    /\ handles[2].removed

\* C19: when a callback of a pass has called removeAll for the event type being
\* notified, or for all event types, the pass still invokes every listener that
\* was in a function slot when it began and was not removed before the pass
\* reached it; after the pass the registry holds no listener of that event type
\* from before the pass.
C19_RemoveAllDoesNotStopPass ==
    (NotifyReturned /\ ~each.live) =>
        /\ each.start \ each.ahead \subseteq {Invoked[j] : j \in 1 .. Len(log)}
        /\ \A k \in ActiveAdds(each.event) : k > each.adds
        /\ \A i \in FunctionSlots(each.event) : Arr(each.event)[i + 1].id > each.adds

\* the first of two listeners called removeAll for the event type, the second
\* was invoked all the same, and the event type has no listener now
C19_Witness ==
    /\ NotifyReturned
    /\ ~each.live
    /\ each.start = {1, 2}
    /\ Invoked = <<1, 2>>
    /\ last.event = "x"
    /\ "x" \in DOMAIN listeners
    /\ FunctionSlots("x") = {}
    /\ handles[1].cleared /\ handles[2].cleared

\* the pass vetoes exactly when a listener it invoked returned false
VetoAggregated ==
    NotifyReturned =>
        (last.out = "false" <=> \E j \in 1 .. Len(log) : log[j].ret = "false")

\* C15 as stated: a listener is called with the argument list spread when data
\* carries the marker together with an argument list, and with data as its
\* single argument in every other case; the veto is aggregated alike.
C15_ModeByMarkerAndList ==
    /\ last.op = "notify" =>
          \A j \in 1 .. Len(log) :
             log[j].args = IF each.data.isObj /\ each.data.params = "true" /\ each.data.list
                           THEN each.data.data ELSE <<each.data>>
    /\ VetoAggregated

\* C15: a listener is called with data.data spread when data.params is true,
\* which is no argument at all when data has no data.data, and with data as
\* its single argument in every other case, absent data and a data.params
\* other than true included; the veto is aggregated alike in both modes.
C15_ModeByMarker ==
    /\ last.op = "notify" =>
          \A j \in 1 .. Len(log) :
             log[j].args = IF each.data.isObj /\ each.data.params = "true"
                           THEN (IF each.data.list THEN each.data.data ELSE << >>)
                           ELSE <<each.data>>
    /\ VetoAggregated

\* a pass with the marker and two arguments called two listeners with both
\* arguments, and the first one's false made the result false
C15_Witness ==
    /\ NotifyReturned
    /\ each.data = Positional
    /\ Len(log) = 2
    /\ \A j \in 1 .. 2 : log[j].args = <<Payload("id1"), Payload("id2")>>
    /\ log[1].ret = "false" /\ log[2].ret = "undefined"
    /\ last.out = "false"

\* the listeners in the registry that the n-th completed group registered
GroupSlots(n) ==
    {slot \in Slots :
        listeners[slot[1]][slot[2] + 1].id
            \in completed[n].first + 1 .. completed[n].first + Len(completed[n].actions)}

\* C16: in every state between two handlers, the registry holds all the
\* listeners of each group whose completion callback has been called, as many
\* as the group has actions, and no listener of any other group: none of a
\* group whose request is pending, and never a part of a group.
C16_GroupAtomic ==
    /\ \A n \in 1 .. Len(completed) :
          Cardinality(GroupSlots(n)) = Len(completed[n].actions)
    /\ \A slot \in Slots : \E n \in 1 .. Len(completed) : slot \in GroupSlots(n)
    /\ \A req \in pending : \A n \in 1 .. Len(completed) : completed[n].cid # req.cid
    /\ (pending # {} /\ completed = << >>) => listeners = << >>

\* the reply to a group of two actions has just been handled: both listeners
\* are in the registry and the completion callback has been called
C16_Witness ==
    /\ last.op = "reply"
    /\ last.out = "callback"
    /\ Len(completed) = 1
    /\ Len(completed[1].actions) = 2
    /\ Cardinality(GroupSlots(1)) = 2
    /\ pending = {}

\* C17 as stated: what registerMenuActionGroup hands to request as the payload
\* holds no action callback.
C17_HandedWithoutCallbacks ==
    \A req \in pending :
       req.action = "register-menu-action-group" =>
          \A i \in DOMAIN req.payload : req.payload[i].kind # "function"

\* C17: what registerMenuActionGroup hands to request as the payload is the
\* group it was given, each action's callback included.
C17_HandedIsGroup ==
    \A req \in pending :
       req.action = "register-menu-action-group" => req.payload = req.group

\* the request of a group with the callbacks f and g is pending, and both
\* callbacks are in its payload
C17_Witness ==
    \E req \in pending :
       /\ req.action = "register-menu-action-group"
       /\ req.group = <<Function("f"), Function("g")>>
       /\ req.payload = <<Function("f"), Function("g")>>

\* C18: a notification of an event type whose listeners all come from group
\* registrations returns true whatever the actions' callbacks returned, and
\* the listener of an action without a function callback calls nothing.
C18_GroupListenersNeverVeto ==
    /\ NotifyReturned => last.out = "true"
    /\ \A j \in 1 .. Len(log) :
          /\ log[j].kind \in {"adapter", "noop"}
          /\ log[j].kind = "noop" => (log[j].inner = << >> /\ log[j].ret = "undefined")
    /\ \A n \in 1 .. Len(completed) :
          \A i \in 1 .. Len(completed[n].actions) :
             completed[n].actions[i].kind # "function" =>
                \E slot \in GroupSlots(n) :
                   LET e == listeners[slot[1]][slot[2] + 1]
                   IN  e.id = completed[n].first + i /\ e.kind = "noop"

\* a group with the callback f and an action without callback was registered
\* under the name x twice; f returned false, the other listener did nothing,
\* and notify returned true
C18_Witness ==
    /\ NotifyReturned
    /\ last.out = "true"
    /\ Len(log) = 2
    /\ log[1].kind = "adapter" /\ log[1].ret = "false"
    /\ log[2].kind = "noop"

\* C20: when a listener throws, the pass ends there: the exception leaves
\* notify in place of a result, no listener is invoked after the one that
\* threw, and no step of a pass, the aborted one included, changes the
\* registry.
C20_ThrowAbortsPass ==
    /\ [](\A j \in 1 .. Len(log) :
             log[j].ret = "throw" =>
                /\ j = Len(log)
                /\ pc = "idle"
                /\ last.op = "notify"
                /\ last.out = "exception")
    /\ [][last'.op = "notify" =>
             (listeners' = listeners /\ handles' = handles /\ nAdds' = nAdds)]_vars

\* the first of two listeners threw: notify was left by the exception and the
\* second listener, still in its slot, was not invoked
C20_Witness ==
    /\ pc = "idle"
    /\ last.op = "notify"
    /\ last.out = "exception"
    /\ FunctionSlots(last.event) = {0, 1}
    /\ Len(log) = 1
    /\ log[1].slot = 0
    /\ log[1].ret = "throw"

====
